---- MODULE Spec2Model ----
(***************************************************************************)
(* Model of MTA-to-DCH: the threshold classifier, the payload builder, the *)
(* uploader, the periodic job (lambda_handler) and the batch job           *)
(* (backfill.main).                                                        *)
(*                                                                         *)
(* Prices are integers (whole price units).  A settlement date is a record *)
(*   isdt  : the value is a datetime instance                              *)
(*   valid : str(value) is text datetime.fromisoformat accepts             *)
(*   wall  : the wall-clock fields Y-M-D H:M:S, as seconds                  *)
(*   usec  : the microsecond field                                         *)
(*   aware : a UTC offset is attached                                      *)
(*   off   : that offset in seconds (0 when naive)                         *)
(* The text "YYYY-MM-DDTHH:MM:SSZ" is the record [sec, suffix]: the second *)
(* count its fields spell and the literal suffix.                          *)
(***************************************************************************)
EXTENDS Integers, Sequences, FiniteSets, TLC

VARIABLES pc, rrp, rrp_value, items, batch_size, batches, price_signals,
          dch_payload, response, upload_result, error, batch_num,
          successful_uploads, failed_uploads, exit_code, lambda_result,
          log, server

vars == <<pc, rrp, rrp_value, items, batch_size, batches, price_signals,
          dch_payload, response, upload_result, error, batch_num,
          successful_uploads, failed_uploads, exit_code, lambda_result,
          log, server>>

----------------------------------------------------------------------------
(* Bounds *)

MaxPrice == 1100
MaxItems == 5
MaxBatchSize == 3
MaxLen == 2
MaxChunks == 3

(* Program constants *)

BATCH_SIZE == 50
DCH_DATA_POOL_ID == "evse_kerbside_wholesale_price_drf"
DCH_POINT_ID == "wholesale_price_drf"

----------------------------------------------------------------------------
(* Input domains *)

Min(a, b) == IF a < b THEN a ELSE b

SeqsUpTo(S, n) == UNION {[1..k -> S] : k \in 0..n}

Prices == (0 - MaxPrice)..MaxPrice

PriceSamples == {0, 499, 500, 1000}

MkDate(isdt, valid, wall, usec, aware, off) ==
  [isdt |-> isdt, valid |-> valid, wall |-> wall, usec |-> usec,
   aware |-> aware, off |-> off]

SettlementDates ==
  { MkDate(TRUE,  TRUE,  100000, 0,      FALSE, 0),
    MkDate(TRUE,  TRUE,  100300, 250000, TRUE,  0),
    MkDate(TRUE,  TRUE,  100600, 0,      TRUE,  36000),
    MkDate(FALSE, TRUE,  100900, 0,      FALSE, 0),
    MkDate(FALSE, TRUE,  101200, 0,      TRUE,  0 - 18000),
    MkDate(FALSE, FALSE, 0,      0,      FALSE, 0) }

PriceSignals == [settlementdate : SettlementDates, rrp : PriceSamples]

ItemVals == {"a", "b"}

StatusCodes == {200, 204, 299, 300, 304, 399, 400, 404, 499, 500, 599}

Bodies == {"", "accepted"}

NoResponse == [kind |-> "none", status |-> 0, text |-> ""]

(* What requests.post can do: deliver a final response, or raise. *)
Outcomes ==
  [kind : {"response"}, status : StatusCodes, text : Bodies]
  \cup [kind : {"ConnectionError", "Timeout"}, status : {0}, text : {""}]

----------------------------------------------------------------------------
(* main.py: calculate_rrp_value *)

(* the lower threshold compared with <= : 500 falls in the band below *)
calculate_rrp_value_inclusive(p) ==
  IF p <= 500 THEN 0
  ELSE IF p < 1000 THEN 1
  ELSE 2

calculate_rrp_value(p) ==
  IF p < 500 THEN 0
  ELSE IF p < 1000 THEN 1
  ELSE 2

----------------------------------------------------------------------------
(* backfill.py: batch_list *)

RECURSIVE batch_loop(_, _, _)
batch_loop(its, size, i) ==
  IF i >= Len(its) THEN <<>>
  ELSE <<SubSeq(its, i + 1, Min(i + size, Len(its)))>>
         \o batch_loop(its, size, i + size)

(* the loop stopping before a trailing partial batch *)
RECURSIVE batch_loop_full_only(_, _, _)
batch_loop_full_only(its, size, i) ==
  IF i + size > Len(its) THEN <<>>
  ELSE <<SubSeq(its, i + 1, i + size)>>
         \o batch_loop_full_only(its, size, i + size)

batch_list_full_only(its, size) == batch_loop_full_only(its, size, 0)

batch_list(its, size) == batch_loop(its, size, 0)

----------------------------------------------------------------------------
(* main.py: construct_dch_payload *)

composite_point_id == <<"evse", DCH_DATA_POOL_ID, DCH_POINT_ID>>

EmptyPayload == [points |-> {}, data |-> <<>>]

(* datetime.fromisoformat(str(value)): the fields the text spells, or ValueError *)
fromisoformat(d) ==
  IF d.valid
    THEN [ok |-> TRUE,
          dt |-> MkDate(TRUE, TRUE, d.wall, d.usec, d.aware, d.off)]
    ELSE [ok |-> FALSE, dt |-> d]

to_timestamp(d) ==
  IF d.isdt THEN [ok |-> TRUE, dt |-> d] ELSE fromisoformat(d)

(* timestamp.strftime("%Y-%m-%dT%H:%M:%SZ"): the wall-clock fields to the
   second, then a literal Z; neither the microseconds nor the offset appear *)
strftime(dt) == [sec |-> dt.wall, suffix |-> "Z"]

observation(ps) ==
  [t |-> strftime(to_timestamp(ps.settlementdate).dt),
   p |-> "0",
   n |-> calculate_rrp_value(ps.rrp)]

(* the observation inserted at the front of data instead of appended *)
RECURSIVE payload_loop_prepend(_, _, _)
payload_loop_prepend(sigs, i, payload) ==
  IF i > Len(sigs) THEN [ok |-> TRUE, payload |-> payload]
  ELSE IF ~to_timestamp(sigs[i].settlementdate).ok
    THEN [ok |-> FALSE, payload |-> payload]
  ELSE payload_loop_prepend(sigs, i + 1,
         [payload EXCEPT !.data = <<observation(sigs[i])>> \o @])

RECURSIVE payload_loop(_, _, _)
payload_loop(sigs, i, payload) ==
  IF i > Len(sigs) THEN [ok |-> TRUE, payload |-> payload]
  ELSE IF ~to_timestamp(sigs[i].settlementdate).ok
    THEN [ok |-> FALSE, payload |-> payload]
  ELSE payload_loop(sigs, i + 1,
         [payload EXCEPT !.data = Append(@, observation(sigs[i]))])

construct_dch_payload(sigs) ==
  IF sigs = <<>> THEN [ok |-> TRUE, payload |-> EmptyPayload]
  ELSE payload_loop(sigs, 1,
         [points |-> {<<"0", composite_point_id>>}, data |-> <<>>])

----------------------------------------------------------------------------
(* main.py: upload_to_dch *)

NoResult == [statusCode |-> 0, body |-> ""]

(* requests.Response.raise_for_status raises HTTPError for 400..599 *)
raise_for_status(r) == r.status >= 400 /\ r.status < 600

upload_to_dch(o) ==
  IF o.kind # "response"
    THEN [error |-> o.kind, result |-> NoResult]
  ELSE IF raise_for_status(o)
    THEN [error |-> "HTTPError", result |-> NoResult]
  ELSE [error |-> "none",
        result |-> [statusCode |-> o.status, body |-> o.text]]

----------------------------------------------------------------------------
(* Values of the variables a specification does not use *)

NoLambdaResult ==
  [statusCode |-> 0, keys |-> {}, message |-> "", error |-> "none",
   price_signals_processed |-> 0, dch_response |-> NoResult]

IdleClassify == rrp = 0 /\ rrp_value = 0
IdleChunk == items = <<>> /\ batch_size = 1
IdleBatches == batches = <<>>
IdleSignals == price_signals = <<>>
IdlePayload == dch_payload = EmptyPayload
IdleUpload == response = NoResponse /\ upload_result = NoResult
IdleError == error = "none"
IdleBackfill ==
  /\ batch_num = 0 /\ successful_uploads = 0 /\ failed_uploads = 0
  /\ exit_code = 0 - 1
IdleLambda == lambda_result = NoLambdaResult
IdleNet == log = <<>> /\ server = <<>>

----------------------------------------------------------------------------
(* The classifier on its own *)

InitClassify ==
  /\ pc = "classify"
  /\ rrp \in Prices
  /\ rrp_value = 0
  /\ IdleChunk /\ IdleBatches /\ IdleSignals /\ IdlePayload /\ IdleUpload
  /\ IdleError /\ IdleBackfill /\ IdleLambda /\ IdleNet

Classify ==
  /\ pc = "classify"
  /\ rrp_value' = calculate_rrp_value(rrp)
  /\ pc' = "classified"
  /\ UNCHANGED <<rrp, items, batch_size, batches, price_signals, dch_payload,
                 response, upload_result, error, batch_num,
                 successful_uploads, failed_uploads, exit_code,
                 lambda_result, log, server>>

NextClassify == Classify

SpecClassify == InitClassify /\ [][NextClassify]_vars

----------------------------------------------------------------------------
(* batch_list on its own *)

InitChunk ==
  /\ pc = "batch_list"
  /\ items \in SeqsUpTo(ItemVals, MaxItems)
  /\ batch_size \in 1..MaxBatchSize
  /\ IdleClassify /\ IdleBatches /\ IdleSignals /\ IdlePayload /\ IdleUpload
  /\ IdleError /\ IdleBackfill /\ IdleLambda /\ IdleNet

BatchList ==
  /\ pc = "batch_list"
  /\ batches' = batch_list(items, batch_size)
  /\ pc' = "batched"
  /\ UNCHANGED <<rrp, rrp_value, items, batch_size, price_signals,
                 dch_payload, response, upload_result, error, batch_num,
                 successful_uploads, failed_uploads, exit_code,
                 lambda_result, log, server>>

NextChunk == BatchList

SpecChunk == InitChunk /\ [][NextChunk]_vars

----------------------------------------------------------------------------
(* construct_dch_payload on its own *)

InitBuild ==
  /\ pc = "build"
  /\ price_signals \in SeqsUpTo(PriceSignals, MaxLen)
  /\ IdleClassify /\ IdleChunk /\ IdleBatches /\ IdlePayload /\ IdleUpload
  /\ IdleError /\ IdleBackfill /\ IdleLambda /\ IdleNet

Build ==
  /\ pc = "build"
  /\ LET b == construct_dch_payload(price_signals) IN
       IF b.ok
         THEN /\ dch_payload' = b.payload
              /\ error' = "none"
              /\ pc' = "built"
         ELSE /\ dch_payload' = dch_payload
              /\ error' = "ValueError"
              /\ pc' = "build_raised"
  /\ UNCHANGED <<rrp, rrp_value, items, batch_size, batches, price_signals,
                 response, upload_result, batch_num, successful_uploads,
                 failed_uploads, exit_code, lambda_result, log, server>>

NextBuild == Build

SpecBuild == InitBuild /\ [][NextBuild]_vars

----------------------------------------------------------------------------
(* The network call both jobs make through upload_to_dch: the remote API
   stores the envelope when it answers 2xx *)

Delivered(o, payload) ==
  IF o.kind = "response" /\ o.status >= 200 /\ o.status < 300
    THEN Append(server, payload) ELSE server

Event(b, kind, ok) == [batch |-> b, kind |-> kind, ok |-> ok]

----------------------------------------------------------------------------
(* upload_to_dch on its own: one POST, whose outcome the network decides *)

InitUpload ==
  /\ pc = "upload"
  /\ price_signals \in {s \in SeqsUpTo(PriceSignals, 1) :
                          construct_dch_payload(s).ok}
  /\ dch_payload = construct_dch_payload(price_signals).payload
  /\ IdleClassify /\ IdleChunk /\ IdleBatches /\ IdleUpload
  /\ IdleError /\ IdleBackfill /\ IdleLambda /\ IdleNet

Upload ==
  /\ pc = "upload"
  /\ \E o \in Outcomes :
       LET u == upload_to_dch(o) IN
         /\ response' = o
         /\ log' = Append(log, Event(0, "upload", u.error = "none"))
         /\ server' = Delivered(o, dch_payload)
         /\ upload_result' = u.result
         /\ error' = u.error
         /\ pc' = IF u.error = "none" THEN "uploaded" ELSE "upload_raised"
  /\ UNCHANGED <<rrp, rrp_value, items, batch_size, batches, price_signals,
                 dch_payload, batch_num, successful_uploads, failed_uploads,
                 exit_code, lambda_result>>

NextUpload == Upload

SpecUpload == InitUpload /\ [][NextUpload]_vars


----------------------------------------------------------------------------
(* main.py: lambda_handler, the periodic job *)

ErrorResult(e) ==
  [statusCode |-> 500, keys |-> {"error", "message"},
   message |-> "Failed to process and upload price signals",
   error |-> e, price_signals_processed |-> 0, dch_response |-> NoResult]

NoRecordsResult ==
  [statusCode |-> 200, keys |-> {"message"},
   message |-> "No price signals found for the last hour",
   error |-> "none", price_signals_processed |-> 0,
   dch_response |-> NoResult]

SuccessResult(n, r) ==
  [statusCode |-> 200,
   keys |-> {"message", "price_signals_processed", "dch_response"},
   message |-> "Successfully processed and uploaded price signals to DCH",
   error |-> "none", price_signals_processed |-> n, dch_response |-> r]

InitLambda ==
  /\ pc = "lambda_fetch"
  /\ IdleClassify /\ IdleChunk /\ IdleBatches /\ IdleSignals /\ IdlePayload
  /\ IdleUpload /\ IdleError /\ IdleBackfill /\ IdleLambda /\ IdleNet

(* get_last_hour_price_signals raises: caught by the handler's except *)
LambdaFetchRaises ==
  /\ pc = "lambda_fetch"
  /\ error' = "FetchError"
  /\ log' = Append(log, Event(0, "fetch", FALSE))
  /\ lambda_result' = ErrorResult("FetchError")
  /\ pc' = "lambda_returned"
  /\ UNCHANGED <<rrp, rrp_value, items, batch_size, batches, price_signals,
                 dch_payload, response, upload_result, batch_num,
                 successful_uploads, failed_uploads, exit_code, server>>

(* the empty check missing: an empty fetch goes on to build and upload *)
LambdaFetch_no_empty_check ==
  /\ pc = "lambda_fetch"
  /\ \E sigs \in SeqsUpTo(PriceSignals, MaxLen) :
       /\ price_signals' = sigs
       /\ log' = Append(log, Event(0, "fetch", TRUE))
       /\ lambda_result' = lambda_result
       /\ pc' = "lambda_build"
  /\ UNCHANGED <<rrp, rrp_value, items, batch_size, batches, dch_payload,
                 response, upload_result, error, batch_num,
                 successful_uploads, failed_uploads, exit_code, server>>

LambdaFetch ==
  /\ pc = "lambda_fetch"
  /\ \E sigs \in SeqsUpTo(PriceSignals, MaxLen) :
       /\ price_signals' = sigs
       /\ log' = Append(log, Event(0, "fetch", TRUE))
       /\ IF sigs = <<>>
            THEN /\ lambda_result' = NoRecordsResult
                 /\ pc' = "lambda_returned"
            ELSE /\ lambda_result' = lambda_result
                 /\ pc' = "lambda_build"
  /\ UNCHANGED <<rrp, rrp_value, items, batch_size, batches, dch_payload,
                 response, upload_result, error, batch_num,
                 successful_uploads, failed_uploads, exit_code, server>>

LambdaBuild ==
  /\ pc = "lambda_build"
  /\ LET b == construct_dch_payload(price_signals) IN
       /\ log' = Append(log, Event(0, "build", b.ok))
       /\ IF b.ok
            THEN /\ dch_payload' = b.payload
                 /\ error' = error
                 /\ lambda_result' = lambda_result
                 /\ pc' = "lambda_upload"
            ELSE /\ dch_payload' = dch_payload
                 /\ error' = "ValueError"
                 /\ lambda_result' = ErrorResult("ValueError")
                 /\ pc' = "lambda_returned"
  /\ UNCHANGED <<rrp, rrp_value, items, batch_size, batches, price_signals,
                 response, upload_result, batch_num, successful_uploads,
                 failed_uploads, exit_code, server>>

(* the upload outside the try: its exception leaves the handler *)
LambdaUpload_uncaught ==
  /\ pc = "lambda_upload"
  /\ \E o \in Outcomes :
       LET u == upload_to_dch(o) IN
         /\ response' = o
         /\ log' = Append(log, Event(0, "upload", u.error = "none"))
         /\ server' = Delivered(o, dch_payload)
         /\ upload_result' = u.result
         /\ error' = u.error
         /\ IF u.error = "none"
              THEN /\ lambda_result' =
                        SuccessResult(Len(price_signals), u.result)
                   /\ pc' = "lambda_returned"
              ELSE /\ lambda_result' = lambda_result
                   /\ pc' = "lambda_raised"
  /\ UNCHANGED <<rrp, rrp_value, items, batch_size, batches, price_signals,
                 dch_payload, batch_num, successful_uploads, failed_uploads,
                 exit_code>>

LambdaUpload ==
  /\ pc = "lambda_upload"
  /\ \E o \in Outcomes :
       LET u == upload_to_dch(o) IN
         /\ response' = o
         /\ log' = Append(log, Event(0, "upload", u.error = "none"))
         /\ server' = Delivered(o, dch_payload)
         /\ upload_result' = u.result
         /\ error' = u.error
         /\ lambda_result' =
              IF u.error = "none"
                THEN SuccessResult(Len(price_signals), u.result)
                ELSE ErrorResult(u.error)
  /\ pc' = "lambda_returned"
  /\ UNCHANGED <<rrp, rrp_value, items, batch_size, batches, price_signals,
                 dch_payload, batch_num, successful_uploads, failed_uploads,
                 exit_code>>

NextLambda ==
  \/ LambdaFetchRaises
  \/ LambdaFetch
  \/ LambdaBuild
  \/ LambdaUpload

SpecLambda == InitLambda /\ [][NextLambda]_vars

----------------------------------------------------------------------------
(* backfill.py: main, the batch job *)

(* Record sets of the batch run: n records in settlement order; each chunk
   named in bad holds one record whose settlement date does not parse *)
ChunkOf(i) == ((i - 1) \div BATCH_SIZE) + 1

MkSignals(n, bad) ==
  [i \in 1..n |->
     [settlementdate |->
        IF ChunkOf(i) \in bad /\ (i % BATCH_SIZE = 0 \/ i = n)
          THEN MkDate(FALSE, FALSE, 0, 0, FALSE, 0)
          ELSE MkDate(TRUE, TRUE, 100000 + 300 * i, 0, FALSE, 0),
      rrp |-> ((i * 7) % 12) * 100]]

BackfillCounts ==
  {c * BATCH_SIZE + d : c \in 0..(MaxChunks - 1), d \in {0, 1, BATCH_SIZE}}

BackfillInputs ==
  {MkSignals(n, bad) : n \in BackfillCounts, bad \in SUBSET (1..MaxChunks)}

InitBackfill ==
  /\ pc = "main_fetch"
  /\ IdleClassify /\ IdleChunk /\ IdleBatches /\ IdleSignals /\ IdlePayload
  /\ IdleUpload /\ IdleError /\ IdleBackfill /\ IdleLambda /\ IdleNet

(* get_all_price_signals raises: the outer except returns 1 *)
MainFetchRaises ==
  /\ pc = "main_fetch"
  /\ error' = "FetchError"
  /\ log' = Append(log, Event(0, "fetch", FALSE))
  /\ exit_code' = 1
  /\ pc' = "exited"
  /\ UNCHANGED <<rrp, rrp_value, items, batch_size, batches, price_signals,
                 dch_payload, response, upload_result, batch_num,
                 successful_uploads, failed_uploads, lambda_result, server>>

MainFetch ==
  /\ pc = "main_fetch"
  /\ \E sigs \in BackfillInputs :
       /\ price_signals' = sigs
       /\ log' = Append(log, Event(0, "fetch", TRUE))
       /\ IF sigs = <<>>
            THEN /\ exit_code' = 0
                 /\ batches' = batches
                 /\ batch_num' = batch_num
                 /\ pc' = "exited"
            ELSE /\ exit_code' = exit_code
                 /\ batches' = batch_list(sigs, BATCH_SIZE)
                 /\ batch_num' = 1
                 /\ pc' = "main_build"
  /\ successful_uploads' = 0
  /\ failed_uploads' = 0
  /\ UNCHANGED <<rrp, rrp_value, items, batch_size, dch_payload, response,
                 upload_result, error, lambda_result, server>>

(* enumerate(batches, 1): the next batch, or the code after the loop *)
NextBatch ==
  IF batch_num < Len(batches)
    THEN /\ batch_num' = batch_num + 1
         /\ pc' = "main_build"
    ELSE /\ batch_num' = batch_num
         /\ pc' = "main_finish"

(* the build outside the per-batch try: its exception reaches the outer
   except, which returns 1 *)
MainBuild_outer_except ==
  /\ pc = "main_build"
  /\ LET b == construct_dch_payload(batches[batch_num]) IN
       /\ log' = Append(log, Event(batch_num, "build", b.ok))
       /\ IF b.ok
            THEN /\ dch_payload' = b.payload
                 /\ error' = error
                 /\ exit_code' = exit_code
                 /\ pc' = "main_upload"
            ELSE /\ dch_payload' = dch_payload
                 /\ error' = "ValueError"
                 /\ exit_code' = 1
                 /\ pc' = "exited"
  /\ UNCHANGED <<rrp, rrp_value, items, batch_size, batches, price_signals,
                 response, upload_result, batch_num, successful_uploads,
                 failed_uploads, lambda_result, server>>

MainBuild ==
  /\ pc = "main_build"
  /\ LET b == construct_dch_payload(batches[batch_num]) IN
       /\ log' = Append(log, Event(batch_num, "build", b.ok))
       /\ IF b.ok
            THEN /\ dch_payload' = b.payload
                 /\ error' = error
                 /\ failed_uploads' = failed_uploads
                 /\ batch_num' = batch_num
                 /\ pc' = "main_upload"
            ELSE /\ dch_payload' = dch_payload
                 /\ error' = "ValueError"
                 /\ failed_uploads' = failed_uploads + 1
                 /\ NextBatch
  /\ UNCHANGED <<rrp, rrp_value, items, batch_size, batches, price_signals,
                 response, upload_result, successful_uploads, exit_code,
                 lambda_result, server>>

(* a failed upload leaving the loop instead of continuing *)
MainUpload_break_on_failure ==
  /\ pc = "main_upload"
  /\ \E o \in Outcomes :
       LET u == upload_to_dch(o) IN
         /\ response' = o
         /\ log' = Append(log, Event(batch_num, "upload", u.error = "none"))
         /\ server' = Delivered(o, dch_payload)
         /\ upload_result' = u.result
         /\ error' = u.error
         /\ IF u.error = "none"
              THEN /\ successful_uploads' = successful_uploads + 1
                   /\ failed_uploads' = failed_uploads
                   /\ NextBatch
              ELSE /\ successful_uploads' = successful_uploads
                   /\ failed_uploads' = failed_uploads + 1
                   /\ batch_num' = batch_num
                   /\ pc' = "main_finish"
  /\ UNCHANGED <<rrp, rrp_value, items, batch_size, batches, price_signals,
                 dch_payload, exit_code, lambda_result>>

MainUpload ==
  /\ pc = "main_upload"
  /\ \E o \in Outcomes :
       LET u == upload_to_dch(o) IN
         /\ response' = o
         /\ log' = Append(log, Event(batch_num, "upload", u.error = "none"))
         /\ server' = Delivered(o, dch_payload)
         /\ upload_result' = u.result
         /\ error' = u.error
         /\ IF u.error = "none"
              THEN /\ successful_uploads' = successful_uploads + 1
                   /\ failed_uploads' = failed_uploads
              ELSE /\ successful_uploads' = successful_uploads
                   /\ failed_uploads' = failed_uploads + 1
  /\ NextBatch
  /\ UNCHANGED <<rrp, rrp_value, items, batch_size, batches, price_signals,
                 dch_payload, exit_code, lambda_result>>

(* the exit code taken from the successful counter *)
MainFinish_any_success ==
  /\ pc = "main_finish"
  /\ exit_code' = IF successful_uploads > 0 THEN 0 ELSE 1
  /\ pc' = "exited"
  /\ UNCHANGED <<rrp, rrp_value, items, batch_size, batches, price_signals,
                 dch_payload, response, upload_result, error, batch_num,
                 successful_uploads, failed_uploads, lambda_result, log,
                 server>>

MainFinish ==
  /\ pc = "main_finish"
  /\ exit_code' = IF failed_uploads = 0 THEN 0 ELSE 1
  /\ pc' = "exited"
  /\ UNCHANGED <<rrp, rrp_value, items, batch_size, batches, price_signals,
                 dch_payload, response, upload_result, error, batch_num,
                 successful_uploads, failed_uploads, lambda_result, log,
                 server>>

NextBackfill ==
  \/ MainFetchRaises
  \/ MainFetch
  \/ MainBuild
  \/ MainUpload
  \/ MainFinish

SpecBackfill == InitBackfill /\ [][NextBackfill]_vars


----------------------------------------------------------------------------
(* Vocabulary of the properties *)

IsFetch(e) == e.kind = "fetch"
IsBuild(e) == e.kind = "build"
IsUpload(e) == e.kind = "upload"
IsOkUpload(e) == e.kind = "upload" /\ e.ok
IsFailedUpload(e) == e.kind = "upload" /\ ~e.ok
IsFailedBuild(e) == e.kind = "build" /\ ~e.ok

Fetches == SelectSeq(log, IsFetch)
Builds == SelectSeq(log, IsBuild)
Uploads == SelectSeq(log, IsUpload)

Count(Test(_)) == Len(SelectSeq(log, Test))

FetchFailed == \E i \in 1..Len(log) : IsFetch(log[i]) /\ ~log[i].ok

Parseable(d) == d.isdt \/ d.valid

AllParseable(sigs) ==
  \A i \in 1..Len(sigs) : Parseable(sigs[i].settlementdate)

RECURSIVE Flatten(_)
Flatten(ss) == IF ss = <<>> THEN <<>> ELSE Head(ss) \o Flatten(Tail(ss))

CeilDiv(n, d) == (n + d - 1) \div d

Is2xx(r) == r.kind = "response" /\ r.status >= 200 /\ r.status < 300

----------------------------------------------------------------------------
(* C6: classify is total into {0,1,2}; a price below 500 (zero and negative
   prices included) gives 0, a price from 500 up to but excluding 1000 gives
   1, a price of 1000 or more gives 2; no lower price gives a higher level. *)
C6_ClassifyBands ==
  pc = "classified" =>
    /\ rrp_value \in {0, 1, 2}
    /\ (rrp < 500 => rrp_value = 0)
    /\ (rrp >= 500 /\ rrp < 1000 => rrp_value = 1)
    /\ (rrp >= 1000 => rrp_value = 2)
    /\ \A q \in Prices : q <= rrp => calculate_rrp_value(q) <= rrp_value

C6_Witness == pc = "classified" /\ rrp = 500 /\ rrp_value = 1

----------------------------------------------------------------------------
(* C4: batch_list(items, S) with S >= 1 yields ceil(N/S) chunks, each
   non-empty, each but possibly the last of length exactly S, and the chunks
   concatenated in order are the original list. *)
C4_ExactPartition ==
  pc = "batched" =>
    /\ Len(batches) = CeilDiv(Len(items), batch_size)
    /\ \A k \in 1..Len(batches) : Len(batches[k]) >= 1
    /\ \A k \in 1..(Len(batches) - 1) : Len(batches[k]) = batch_size
    /\ Flatten(batches) = items

C4_Witness ==
  /\ pc = "batched"
  /\ Len(items) = 5 /\ batch_size = 2
  /\ Len(batches) = 3 /\ Len(batches[3]) = 1
  /\ items[1] # items[2]

----------------------------------------------------------------------------
(* C5: for a record list whose timestamps all parse, the build succeeds, the
   data has one observation per record in input order with n the record's
   level and p = "0"; the point table has exactly the one entry keyed "0"
   when the list is non-empty, and the empty list gives the empty envelope. *)
C5_OneObservationPerRecord ==
  pc \in {"built", "build_raised"} /\ AllParseable(price_signals) =>
    /\ pc = "built"
    /\ Len(dch_payload.data) = Len(price_signals)
    /\ \A i \in 1..Len(price_signals) :
         /\ dch_payload.data[i].n = calculate_rrp_value(price_signals[i].rrp)
         /\ dch_payload.data[i].p = "0"
    /\ (price_signals # <<>> =>
          /\ Cardinality(dch_payload.points) = 1
          /\ \A e \in dch_payload.points :
               e[1] = "0" /\ e[2] = composite_point_id)
    /\ (price_signals = <<>> => dch_payload = EmptyPayload)

C5_Witness ==
  /\ pc = "built"
  /\ Len(price_signals) = 2
  /\ dch_payload.data[1].n = 2 /\ dch_payload.data[2].n = 0
  /\ ~price_signals[1].settlementdate.isdt

----------------------------------------------------------------------------
(* C10: every observation's t names, with second precision and a literal Z,
   the UTC instant of its record's settlement date: the wall clock less the
   UTC offset the timestamp carries. *)
C10_TimestampIsUtcInstant ==
  pc = "built" =>
    \A i \in 1..Len(price_signals) :
      price_signals[i].settlementdate.aware =>
        /\ dch_payload.data[i].t.suffix = "Z"
        /\ dch_payload.data[i].t.sec =
             price_signals[i].settlementdate.wall
               - price_signals[i].settlementdate.off

----------------------------------------------------------------------------
(* C7: upload returns a result exactly when the response status is 2xx, the
   result then carrying that status; every other status and every transport
   failure raises. *)
C7_ResultOnlyOn2xx ==
  pc \in {"uploaded", "upload_raised"} =>
    /\ (pc = "uploaded" <=> Is2xx(response))
    /\ (pc = "uploaded" => upload_result.statusCode = response.status)


----------------------------------------------------------------------------
(* C8: the periodic job always returns a status/body pair: a failed fetch,
   build or upload ends the invocation with status 500 carrying the error
   detail, status 500 is returned only then, and the result carrying the
   record count and the raw upload result is status 200 and is returned only
   after the single upload succeeded. *)
C8_NoFailureCrossesBoundary ==
  /\ ((\E i \in 1..Len(log) : ~log[i].ok) => pc = "lambda_returned")
  /\ (pc = "lambda_returned" =>
        /\ lambda_result.statusCode \in {200, 500}
        /\ (lambda_result.statusCode = 500
              <=> \E i \in 1..Len(log) : ~log[i].ok)
        /\ (lambda_result.statusCode = 500 =>
              /\ lambda_result.keys = {"error", "message"}
              /\ lambda_result.error = error
              /\ error # "none")
        /\ ("dch_response" \in lambda_result.keys =>
              /\ lambda_result.statusCode = 200
              /\ Count(IsUpload) = 1 /\ Count(IsOkUpload) = 1
              /\ lambda_result.price_signals_processed = Len(price_signals)
              /\ lambda_result.dch_response = upload_result
              /\ upload_result.statusCode = response.status
              /\ upload_result.body = response.text)
        /\ (lambda_result.statusCode = 200 /\ price_signals # <<>> =>
              "dch_response" \in lambda_result.keys))

C8_Witness ==
  /\ pc = "lambda_returned"
  /\ lambda_result.statusCode = 500
  /\ lambda_result.error = "Timeout"
  /\ Count(IsFailedUpload) = 1

----------------------------------------------------------------------------
(* C9 as stated: one invocation makes one fetch and at most one upload
   attempt; with zero records it returns the "no records" success without a
   build or an upload attempt; with one or more records it builds one
   envelope and makes exactly one upload attempt. *)
C9_OneFetchOneUpload ==
  pc = "lambda_returned" =>
    /\ Count(IsFetch) = 1
    /\ Count(IsUpload) <= 1
    /\ (~FetchFailed /\ price_signals = <<>> =>
          /\ lambda_result = NoRecordsResult
          /\ Count(IsBuild) = 0 /\ Count(IsUpload) = 0)
    /\ (price_signals # <<>> =>
          Count(IsBuild) = 1 /\ Count(IsUpload) = 1)

(* C9 amended: as above, but with one or more records the single upload
   attempt is made exactly when the build of the one envelope over the whole
   fetched set succeeds; when a timestamp does not parse there is no upload
   attempt and the result is the status 500 one. *)
C9_OneFetchOneUploadIfBuilt ==
  pc = "lambda_returned" =>
    /\ Count(IsFetch) = 1
    /\ Count(IsUpload) <= 1
    /\ (~FetchFailed /\ price_signals = <<>> =>
          /\ lambda_result = NoRecordsResult
          /\ lambda_result.statusCode = 200
          /\ Count(IsBuild) = 0 /\ Count(IsUpload) = 0)
    /\ (price_signals # <<>> =>
          /\ Count(IsBuild) = 1
          /\ (AllParseable(price_signals) =>
                /\ Count(IsUpload) = 1
                /\ Len(dch_payload.data) = Len(price_signals))
          /\ (~AllParseable(price_signals) =>
                /\ Count(IsUpload) = 0
                /\ lambda_result.statusCode = 500))

C9_Witness ==
  /\ pc = "lambda_returned"
  /\ Len(price_signals) = 2
  /\ Count(IsUpload) = 1
  /\ Len(dch_payload.data) = 2

----------------------------------------------------------------------------
(* C1 as stated: in a batch run over K >= 1 chunks every chunk 1..K gets
   exactly one upload attempt, in chunk order; at the end the successful
   counter is the number of uploads that succeeded and the failed counter the
   number of uploads that failed. *)
C1_EveryChunkUploadedOnce ==
  pc = "exited" /\ batches # <<>> =>
    /\ Len(Uploads) = Len(batches)
    /\ \A k \in 1..Len(Uploads) : Uploads[k].batch = k
    /\ successful_uploads = Count(IsOkUpload)
    /\ failed_uploads = Count(IsFailedUpload)

(* C1 amended: every chunk 1..K is processed once, in chunk order, whatever
   happened to the earlier chunks; a chunk whose envelope builds gets exactly
   one upload attempt, a chunk whose build raises gets none; at the end the
   successful counter is the number of uploads that succeeded and the failed
   counter the number of chunks whose build or upload failed. *)
C1_EveryBuiltChunkUploadedOnce ==
  pc = "exited" /\ batches # <<>> =>
    /\ Len(Builds) = Len(batches)
    /\ \A k \in 1..Len(Builds) : Builds[k].batch = k
    /\ \A k \in 1..Len(batches) :
         Cardinality({i \in 1..Len(Uploads) : Uploads[i].batch = k})
           = IF AllParseable(batches[k]) THEN 1 ELSE 0
    /\ \A i, j \in 1..Len(Uploads) :
         i < j => Uploads[i].batch < Uploads[j].batch
    /\ successful_uploads = Count(IsOkUpload)
    /\ failed_uploads = Count(IsFailedUpload) + Count(IsFailedBuild)
    /\ successful_uploads + failed_uploads = Len(batches)

C1_Witness ==
  /\ pc = "exited"
  /\ Len(batches) = 3
  /\ Len(Uploads) = 3
  /\ Uploads[1].ok /\ ~Uploads[2].ok /\ Uploads[3].ok
  /\ successful_uploads = 2 /\ failed_uploads = 1
  /\ exit_code = 1

----------------------------------------------------------------------------
(* C2: the batch job exits with 0 or 1 and nothing else; with 0 exactly when
   the run finished with a failed-chunk count of zero, the empty record set
   (no upload attempt) included; with 1 when a chunk failed or the fetch
   raised; an envelope the remote API has stored stays stored. *)
C2_ExitInv ==
  /\ exit_code \in {0 - 1, 0, 1}
  /\ (pc = "exited" <=> exit_code # 0 - 1)
  /\ (pc = "exited" =>
        /\ (exit_code = 0 <=> ~FetchFailed /\ failed_uploads = 0)
        /\ (exit_code = 1 <=> FetchFailed \/ failed_uploads >= 1)
        /\ (~FetchFailed /\ price_signals = <<>> =>
              exit_code = 0 /\ Count(IsUpload) = 0))

C2_NoRollback ==
  /\ Len(server') >= Len(server)
  /\ SubSeq(server', 1, Len(server)) = server

C2_ExitCode == [](C2_ExitInv) /\ [][C2_NoRollback]_vars

C2_Witness ==
  /\ pc = "exited"
  /\ exit_code = 1
  /\ successful_uploads >= 1
  /\ Len(server) >= 1

----------------------------------------------------------------------------
(* C3 as stated: a timestamp parse failure while a chunk's envelope is built
   aborts the batch run: nothing is built or uploaded after it, and the run
   ends with a nonzero exit code. *)
C3_ParseFailureAbortsRun ==
  /\ \A i \in 1..Len(log) : IsFailedBuild(log[i]) => i = Len(log)
  /\ (pc = "exited" /\ Count(IsFailedBuild) > 0 => exit_code # 0)

(* C3 amended: a timestamp parse failure while a chunk's envelope is built
   is caught by the per-chunk handler like an upload failure: that chunk gets
   no upload attempt and is counted as failed, every later chunk is still
   built and, when it builds, uploaded, and the run ends with exit code 1. *)
C3_ParseFailureFailsChunkOnly ==
  pc = "exited" /\ batches # <<>> =>
    \A k \in 1..Len(batches) :
      ~AllParseable(batches[k]) =>
        /\ \E i \in 1..Len(log) : IsFailedBuild(log[i]) /\ log[i].batch = k
        /\ \A i \in 1..Len(log) : IsUpload(log[i]) => log[i].batch # k
        /\ \A j \in (k + 1)..Len(batches) :
             /\ \E i \in 1..Len(log) : IsBuild(log[i]) /\ log[i].batch = j
             /\ (AllParseable(batches[j]) =>
                   \E i \in 1..Len(log) :
                     IsUpload(log[i]) /\ log[i].batch = j)
        /\ failed_uploads >= 1
        /\ exit_code = 1

C3_Witness ==
  /\ pc = "exited"
  /\ Len(batches) = 3
  /\ ~AllParseable(batches[1])
  /\ Count(IsFailedBuild) = 1
  /\ Count(IsOkUpload) = 2
  /\ exit_code = 1

====
